---- MODULE Spec2Model ----
(***************************************************************************)
(* Model of winsplit-rs.                                                   *)
(*                                                                         *)
(* Spec, FairSpec: the VC++ 2008 command line tokenizer                    *)
(* (src/src/vc_2008.rs, fn split).  One action per arm of the `match c`    *)
(* of the scanning loop, each including the tail of the loop body, and one *)
(* action for the code that follows the loop.                              *)
(* ParserSpec: Parser::parse (src/src/parser.rs), one action per arm of    *)
(* `match state` and one for the code that follows the loop.               *)
(* CmdExeSpec, PowershellSpec: quote followed by split of                  *)
(* src/src/cmd_exe.rs and src/src/powershell.rs.                           *)
(*                                                                         *)
(* A string is a sequence of one-character strings.  `pos` is the number   *)
(* of characters the iterator `chars` has yielded so far, so the character *)
(* `c` of the coming loop iteration is input[pos + 1].                     *)
(***************************************************************************)
EXTENDS Integers, Sequences, FiniteSets, TLC

VARIABLES input, pos, args, arg, backslash_cnt, in_quote, pc,
          state, command_name, remaining, result, quoted, in_quotes

vars == <<input, pos, args, arg, backslash_cnt, in_quote, pc,
          state, command_name, remaining, result, quoted, in_quotes>>

(* The variables that vc_2008::split does not have *)
vcIdle == <<state, command_name, remaining, result, quoted, in_quotes>>

(* The variables that Parser::parse does not have *)
parserIdle == <<backslash_cnt, in_quote, quoted, in_quotes>>

(* The variables that cmd_exe and powershell do not have *)
shellIdle == <<backslash_cnt, in_quote, state, command_name, remaining, result>>

----------------------------------------------------------------------------
(* Characters *)

Quote == "\""
Backslash == "\\"
Space == " "
Tab == "\t"
CR == "\r"
LF == "\n"
NUL == "NUL"

(* Bounds of the explored inputs *)
MaxLen == 4
MaxWord == 2
MaxQuoteRun == 7

Chars == {"a", "b", Space, Tab, CR, LF, NUL, Quote, Backslash}
PlainChars == Chars \ {Quote, Backslash}

SeqsUpTo(S, n) == UNION {[1..k -> S] : k \in 0..n}

(* The texts of the repository's tests that the claims refer to *)
CallMeIshmael ==
    <<"C", "a", "l", "l", " ", "M", "e", " ", "I", "s", "h", "m", "a", "e", "l">>

Quotes(n) == [i \in 1..n |-> Quote]

(* vc_2008.rs tests: """"w"""", """w""", \""w"\", "\"w\"" *)
WrapQuad(w) == Quotes(4) \o w \o Quotes(4)
WrapTriple(w) == Quotes(3) \o w \o Quotes(3)
WrapEscOuter(w) == <<Backslash, Quote, Quote>> \o w \o <<Quote, Backslash, Quote>>
WrapEscInner(w) == <<Quote, Backslash, Quote>> \o w \o <<Backslash, Quote, Quote>>
(* \"w\" *)
WrapEsc(w) == <<Backslash, Quote>> \o w \o <<Backslash, Quote>>

Words == SeqsUpTo(PlainChars, MaxWord)

(* What stands before and after the runs of quotes that are explored *)
QuoteRunPrefixes == {<<>>, <<"a">>, <<"a", Space>>}
QuoteRunSuffixes == {<<>>, <<"b">>, <<Space, "b">>}

TestInputs ==
    { WrapQuad(CallMeIshmael),
      WrapEsc(CallMeIshmael),
      WrapTriple(CallMeIshmael),
      WrapEscOuter(CallMeIshmael),
      WrapEscInner(CallMeIshmael),
      <<Quote, "a", " ", "b", " ", "c", Quote, Quote>>,
      <<"o", "n", "e", " ", Quote, Quote, " ", "t", "h", "r", "e", "e">>,
      <<"a", Backslash, Backslash, Backslash, Backslash, Quote, "b", " ", "c", Quote, " ", "d">>,
      <<"a", Backslash, Backslash, Backslash, Quote, "b", " ", "c">>,
      <<Backslash, Backslash, Backslash, Backslash>> }

Inputs ==
    SeqsUpTo(Chars, MaxLen)
      \cup {WrapTriple(w) : w \in Words}
      \cup {WrapEscOuter(w) : w \in Words}
      \cup {WrapEscInner(w) : w \in Words}
      \cup {WrapQuad(w) : w \in Words}
      \cup {WrapEsc(w) : w \in Words}
      \cup {(u \o Quotes(m)) \o v : u \in QuoteRunPrefixes, v \in QuoteRunSuffixes,
                                     m \in 1..MaxQuoteRun}
      \cup TestInputs

----------------------------------------------------------------------------
(* Return values of Parser::parse (parser.rs:4, ParseResult) *)
NoResult == <<"none">>
Ok(as) == <<"Ok", as>>
Err(e) == <<"Err", e>>

(* Helpers of vc_2008.rs *)

is_whitespace_NoTab(c) == c = Space \/ c = CR \/ c = LF

is_whitespace(c) == c = Space \/ c = Tab \/ c = CR \/ c = LF

is_whitespace_or_null(c) == is_whitespace(c) \/ c = NUL

RECURSIVE add_n_backslashes(_, _)
add_n_backslashes(s, n) ==
    IF n = 0 THEN s ELSE add_n_backslashes(Append(s, Backslash), n - 1)

is_quote_next_Never(s, p) == FALSE

is_quote_next_Current(s, p) == s[p + 1] = Quote

(* `chars.peek() == Some(&'"')` after `chars.next()` has yielded s[p + 1] *)
is_quote_next(s, p) == p + 2 <= Len(s) /\ s[p + 2] = Quote

even_backslash_cnt_Odd(cnt) == cnt % 2 = 1

even_backslash_cnt(cnt) == cnt % 2 = 0

HalveCount_Keep(cnt) == cnt

HalveCount_RoundUp(cnt) == (cnt + 1) \div 2

(* `backslash_cnt /= 2` *)
HalveCount(cnt) == cnt \div 2

FlushBackslashes_Halved(a, cnt) ==
    IF cnt > 0 THEN add_n_backslashes(a, cnt \div 2) ELSE a

(* `if backslash_cnt > 0 { add_n_backslashes(&mut arg, backslash_cnt); ... }` *)
FlushBackslashes(a, cnt) == IF cnt > 0 THEN add_n_backslashes(a, cnt) ELSE a

HasNext_StopsEarly(s, p) == p + 1 < Len(s)

(* `while let Some(c) = chars.next()`: the iterator still has a character *)
HasNext(s, p) == p < Len(s)

FinalArgs_NoFlush(as, a, cnt) == IF a # <<>> THEN Append(as, a) ELSE as

FinalArgs_AlwaysPush(as, a, cnt) == Append(as, FlushBackslashes(a, cnt))

(* The arguments returned after the loop *)
FinalArgs(as, a, cnt) ==
    LET last == FlushBackslashes(a, cnt)
    IN  IF last # <<>> THEN Append(as, last) ELSE as

----------------------------------------------------------------------------
(* vc_2008::split *)

Init ==
    /\ input \in Inputs
    /\ pos = 0
    /\ args = <<>>
    /\ arg = <<>>
    /\ backslash_cnt = 0
    /\ in_quote = FALSE
    /\ pc = "scan"
    /\ state = "Init"
    /\ command_name = FALSE
    /\ remaining = 0
    /\ result = NoResult
    /\ quoted = <<>>
    /\ in_quotes = FALSE

LoopTail_Prepends(c, cnt, inq, skip_adding_char) ==
    LET flushed == FlushBackslashes(arg, cnt)
    IN  /\ backslash_cnt' = 0
        /\ IF ~inq /\ is_whitespace_or_null(c)
             THEN IF flushed # <<>>
                    THEN /\ args' = <<flushed>> \o args
                         /\ arg' = <<>>
                    ELSE /\ arg' = flushed
                         /\ UNCHANGED args
             ELSE /\ arg' = IF ~skip_adding_char THEN Append(flushed, c) ELSE flushed
                  /\ UNCHANGED args

(* Lines 218-233: flush the backslashes, then end the argument or add c.   *)
(* cnt and inq are backslash_cnt and in_quote as the match arm left them.  *)
LoopTail(c, cnt, inq, skip_adding_char) ==
    LET flushed == FlushBackslashes(arg, cnt)
    IN  /\ backslash_cnt' = 0
        /\ IF ~inq /\ is_whitespace_or_null(c)
             THEN IF flushed # <<>>
                    THEN /\ args' = Append(args, flushed)
                         /\ arg' = <<>>
                    ELSE /\ arg' = flushed
                         /\ UNCHANGED args
             ELSE /\ arg' = IF ~skip_adding_char THEN Append(flushed, c) ELSE flushed
                  /\ UNCHANGED args

BackslashArm_PushesNow ==
    /\ pc = "scan"
    /\ HasNext(input, pos)
    /\ input[pos + 1] = Backslash
    /\ pos' = pos + 1
    /\ arg' = Append(arg, Backslash)
    /\ UNCHANGED <<input, args, backslash_cnt, in_quote, pc>>
    /\ UNCHANGED vcIdle

(* '\\' => { backslash_cnt += 1; continue; } *)
BackslashArm ==
    /\ pc = "scan"
    /\ HasNext(input, pos)
    /\ input[pos + 1] = Backslash
    /\ pos' = pos + 1
    /\ backslash_cnt' = backslash_cnt + 1
    /\ UNCHANGED <<input, args, arg, in_quote, pc>>
    /\ UNCHANGED vcIdle

(* '"' if even_backslash_cnt && in_quote && is_quote_next *)
DoubledQuoteArm ==
    /\ pc = "scan"
    /\ HasNext(input, pos)
    /\ input[pos + 1] = Quote
    /\ even_backslash_cnt(backslash_cnt) /\ in_quote /\ is_quote_next(input, pos)
    /\ pos' = pos + 2
    /\ LoopTail(Quote, HalveCount(backslash_cnt), in_quote, FALSE)
    /\ UNCHANGED <<input, in_quote, pc>>
    /\ UNCHANGED vcIdle

(* '"' if even_backslash_cnt && in_quote *)
CloseQuoteArm ==
    /\ pc = "scan"
    /\ HasNext(input, pos)
    /\ input[pos + 1] = Quote
    /\ even_backslash_cnt(backslash_cnt) /\ in_quote /\ ~is_quote_next(input, pos)
    /\ pos' = pos + 1
    /\ in_quote' = FALSE
    /\ LoopTail(Quote, HalveCount(backslash_cnt), FALSE, TRUE)
    /\ UNCHANGED <<input, pc>>
    /\ UNCHANGED vcIdle

(* '"' if even_backslash_cnt *)
OpenQuoteArm ==
    /\ pc = "scan"
    /\ HasNext(input, pos)
    /\ input[pos + 1] = Quote
    /\ even_backslash_cnt(backslash_cnt) /\ ~in_quote
    /\ pos' = pos + 1
    /\ in_quote' = TRUE
    /\ LoopTail(Quote, HalveCount(backslash_cnt), TRUE, TRUE)
    /\ UNCHANGED <<input, pc>>
    /\ UNCHANGED vcIdle

(* '"' => { backslash_cnt /= 2; } *)
LiteralQuoteArm ==
    /\ pc = "scan"
    /\ HasNext(input, pos)
    /\ input[pos + 1] = Quote
    /\ ~even_backslash_cnt(backslash_cnt)
    /\ pos' = pos + 1
    /\ LoopTail(Quote, HalveCount(backslash_cnt), in_quote, FALSE)
    /\ UNCHANGED <<input, in_quote, pc>>
    /\ UNCHANGED vcIdle

(* _ => {} *)
OtherArm ==
    /\ pc = "scan"
    /\ HasNext(input, pos)
    /\ input[pos + 1] # Backslash
    /\ input[pos + 1] # Quote
    /\ pos' = pos + 1
    /\ LoopTail(input[pos + 1], backslash_cnt, in_quote, FALSE)
    /\ UNCHANGED <<input, in_quote, pc>>
    /\ UNCHANGED vcIdle

(* Lines 236-245: the iterator is exhausted *)
Finish ==
    /\ pc = "scan"
    /\ ~HasNext(input, pos)
    /\ arg' = FlushBackslashes(arg, backslash_cnt)
    /\ args' = FinalArgs(args, arg, backslash_cnt)
    /\ pc' = "done"
    /\ UNCHANGED <<input, pos, backslash_cnt, in_quote>>
    /\ UNCHANGED vcIdle

Next ==
    \/ BackslashArm
    \/ DoubledQuoteArm
    \/ CloseQuoteArm
    \/ OpenQuoteArm
    \/ LiteralQuoteArm
    \/ OtherArm
    \/ Finish

Spec == Init /\ [][Next]_vars

(* The loop is sequential code: a step that can be taken is taken *)
FairSpec == Spec /\ WF_vars(Next)

TypeOK ==
    /\ input \in Inputs
    /\ pos \in 0..Len(input)
    /\ backslash_cnt \in 0..Len(input)
    /\ in_quote \in BOOLEAN
    /\ pc \in {"scan", "done"}

----------------------------------------------------------------------------
(* vc_2008::split as a function of its argument: the same loop, with the   *)
(* locals held in a record, so that the results of different calls can be  *)
(* related.                                                                *)

(* Lines 145-149 *)
VcStart ==
    [ pos |-> 0, args |-> <<>>, arg |-> <<>>, backslash_cnt |-> 0,
      in_quote |-> FALSE ]

(* Lines 218-233 *)
VcLoopTail(st, c, cnt, inq, skip_adding_char) ==
    LET flushed == FlushBackslashes(st.arg, cnt)
    IN  IF ~inq /\ is_whitespace_or_null(c)
          THEN [st EXCEPT !.backslash_cnt = 0, !.in_quote = inq,
                          !.args = IF flushed # <<>> THEN Append(@, flushed) ELSE @,
                          !.arg = <<>>]
          ELSE [st EXCEPT !.backslash_cnt = 0, !.in_quote = inq,
                          !.arg = IF ~skip_adding_char
                                    THEN Append(flushed, c) ELSE flushed]

(* Lines 151-233: one iteration of the loop on the character s[st.pos + 1] *)
VcStep(s, st) ==
    LET c == s[st.pos + 1]
        cnt == st.backslash_cnt
        read == [st EXCEPT !.pos = @ + 1]
    IN  IF c = Backslash
          THEN [read EXCEPT !.backslash_cnt = cnt + 1]
        ELSE IF c = Quote /\ even_backslash_cnt(cnt) /\ st.in_quote
                /\ is_quote_next(s, st.pos)
          THEN VcLoopTail([st EXCEPT !.pos = @ + 2], Quote, HalveCount(cnt),
                          st.in_quote, FALSE)
        ELSE IF c = Quote /\ even_backslash_cnt(cnt) /\ st.in_quote
          THEN VcLoopTail(read, Quote, HalveCount(cnt), FALSE, TRUE)
        ELSE IF c = Quote /\ even_backslash_cnt(cnt)
          THEN VcLoopTail(read, Quote, HalveCount(cnt), TRUE, TRUE)
        ELSE IF c = Quote
          THEN VcLoopTail(read, Quote, HalveCount(cnt), st.in_quote, FALSE)
        ELSE VcLoopTail(read, c, cnt, st.in_quote, FALSE)

(* Line 151, `while let Some(c) = chars.next()` *)
RECURSIVE VcRun(_, _)
VcRun(s, st) == IF HasNext(s, st.pos) THEN VcRun(s, VcStep(s, st)) ELSE st

(* split(s): the loop, then lines 236-245 *)
split(s) ==
    LET st == VcRun(s, VcStart)
    IN  FinalArgs(st.args, st.arg, st.backslash_cnt)

(* The steps of Spec compute the function: checked with the claims *)
SplitAgreesWithSteps == pc = "done" => args = split(input)

----------------------------------------------------------------------------
(* Parser::parse (parser.rs:55-245).  The inner fns is_whitespace and      *)
(* is_whitespace_or_null (parser.rs:119-127) have the bodies of those of   *)
(* vc_2008.rs and are modelled by the same operators.                      *)

(* The inputs of the tests of parser.rs (lines 286-357) *)
ParserTestWord ==
    <<"w", "o", "r", "d">>

ParserTestProgramPath ==
    <<"C", ":", Backslash, "p", "a", "t", "h", Backslash, "t", "o",
          Backslash, "p", "r", "o", "g", "r", "a", "m", ".", "e", "x", "e">>

ParserTestQuotedArg ==
    <<Quote, "q", "u", "o", "t", "e", "d", Space, "a", "r", "g", Quote>>

ParserTestTrim ==
    <<Space, Tab, "a", "r", "g">>

ParserTestMultiple ==
    <<"o", "n", "e", Space, "t", "w", "o", Space, "t", "h", "r", "e",
          "e">>

ParserTestMultipleQuoted ==
    <<"o", "n", "e", Space, Quote, "t", "w", "o", Space, "a", "n", "d",
          Space, "u", "h", Quote, Space, "t", "h", "r", "e", "e">>

ParserTestQuotedPath ==
    <<Quote, "C", ":", Backslash, "p", "a", "t", "h", Backslash, "t",
          "o", Space, "t", "h", "e", Backslash, "p", "r", "o", "g", "r",
          "a", "m", ".", "e", "x", "e", Quote, Space, "a", "r", "g", Space,
          "-", "a", "r", "g", "2", Space, "-", "-", "a", "r", "g", "3">>

ParserTestEmptyQuotes ==
    <<"o", "n", "e", Space, Quote, Quote, Space, "t", "h", "r", "e",
          "e">>

ParserTestInputs ==
    { ParserTestWord, ParserTestProgramPath, ParserTestQuotedArg, ParserTestTrim,
      ParserTestMultiple, ParserTestMultipleQuoted, ParserTestQuotedPath,
      ParserTestEmptyQuotes }

ParserInputs == SeqsUpTo(Chars, MaxLen) \cup ParserTestInputs

is_special_NoNewline(c) ==
    (is_whitespace_or_null(c) /\ c # LF) \/ c = Backslash \/ c = Quote

is_special(c) == is_whitespace_or_null(c) \/ c = Backslash \/ c = Quote

is_special_in_command_name_AsSpecial(c) == is_special(c)

is_special_in_command_name(c) == is_whitespace_or_null(c) \/ c = Quote

(* `if remaining > 0 { remaining -= 1; }` of next_char! *)
DecRemaining(rem) == IF rem > 0 THEN rem - 1 ELSE rem

has_more_chars(rem) == rem > 0

no_more_chars(rem) == rem = 0

RECURSIVE ConsumeWhitespace_NoNewlineCheck(_, _, _, _)
ConsumeWhitespace_NoNewlineCheck(s, p, rem, c) ==
    IF ~is_whitespace_or_null(c)
      THEN [pos |-> p, remaining |-> rem, c |-> c, newline |-> FALSE]
      ELSE IF p < Len(s)
        THEN ConsumeWhitespace_NoNewlineCheck(s, p + 1, DecRemaining(rem), s[p + 1])
        ELSE [pos |-> p, remaining |-> rem, c |-> c, newline |-> FALSE]

(* Lines 194-200, `while is_whitespace_or_null(c)`: c is the character     *)
(* last read, p the number of characters read.  When the input is          *)
(* exhausted the `break` of next_char! leaves this inner loop and c keeps  *)
(* its value.                                                              *)
RECURSIVE ConsumeWhitespace(_, _, _, _)
ConsumeWhitespace(s, p, rem, c) ==
    IF ~is_whitespace_or_null(c)
      THEN [pos |-> p, remaining |-> rem, c |-> c, newline |-> FALSE]
      ELSE IF c = LF
        THEN [pos |-> p, remaining |-> rem, c |-> c, newline |-> TRUE]
        ELSE IF p < Len(s)
          THEN ConsumeWhitespace(s, p + 1, DecRemaining(rem), s[p + 1])
          ELSE [pos |-> p, remaining |-> rem, c |-> c, newline |-> FALSE]

(* Lines 206-217, `while !is_special...(c) { arg.push(c); c = next_char!(); }` *)
RECURSIVE BuildNormal(_, _, _, _, _, _)
BuildNormal(s, p, rem, c, a, cn) ==
    IF (IF cn THEN is_special_in_command_name(c) ELSE is_special(c))
      THEN [pos |-> p, remaining |-> rem, c |-> c, arg |-> a]
      ELSE IF p < Len(s)
        THEN BuildNormal(s, p + 1, DecRemaining(rem), s[p + 1], Append(a, c), cn)
        ELSE [pos |-> p, remaining |-> rem, c |-> c, arg |-> Append(a, c)]

(* The locals of parse at the start of the function (lines 62-67) *)
ParserStart(cn, s) ==
    [ pos |-> 0, remaining |-> Len(s), args |-> <<>>, arg |-> <<>>,
      state |-> "Init", command_name |-> cn, pc |-> "loop", result |-> NoResult ]

Returned(st, r) == [st EXCEPT !.pc = "done", !.result = r]

store_arg_KeepsArg(st) == [st EXCEPT !.args = Append(st.args, st.arg)]

(* store_arg! (lines 112-117): `args.push(arg); arg = String::new();` *)
store_arg(st) == [st EXCEPT !.args = Append(st.args, st.arg), !.arg = <<>>]

(* Lines 186-231: `let mut c = next_char!()` has read s[st.pos + 1] and    *)
(* the state is Init.                                                      *)
InitArm(s, st) ==
    LET c0 == s[st.pos + 1]
        w == ConsumeWhitespace(s, st.pos + 1, DecRemaining(st.remaining), c0)
        b == BuildNormal(s, w.pos, w.remaining, w.c, st.arg, st.command_name)
        read == [st EXCEPT !.pos = b.pos, !.remaining = b.remaining]
    IN  IF st.arg # <<>>
          THEN Returned([st EXCEPT !.pos = st.pos + 1,
                                   !.remaining = DecRemaining(st.remaining)],
                        Err("ArgNotEmptyInInitialState"))
        ELSE IF w.newline
          THEN Returned([st EXCEPT !.pos = w.pos, !.remaining = w.remaining],
                        Err("ReachedUnescapedNewline"))
        ELSE IF no_more_chars(w.remaining)
          THEN [st EXCEPT !.pos = w.pos, !.remaining = w.remaining, !.pc = "after"]
        ELSE IF no_more_chars(b.remaining) \/ is_whitespace_or_null(b.c)
          THEN store_arg([read EXCEPT !.arg = b.arg])
        ELSE IF b.c = Quote
          THEN [read EXCEPT !.arg = b.arg, !.state = "Quoted"]
        ELSE IF b.c = Backslash
          THEN IF st.command_name
                 THEN Returned([read EXCEPT !.arg = b.arg], Err("CommandNameBackslash"))
                 ELSE [read EXCEPT !.arg = b.arg, !.state = "Unquoted"]
        ELSE Returned([read EXCEPT !.arg = b.arg], <<"panic", "unreachable">>)

(* Line 186 and line 233, `State::Quoted => {}` *)
QuotedArm(s, st) ==
    [st EXCEPT !.pos = st.pos + 1, !.remaining = DecRemaining(st.remaining)]

(* Line 186 and line 235, `State::Unquoted => {}` *)
UnquotedArm(s, st) ==
    [st EXCEPT !.pos = st.pos + 1, !.remaining = DecRemaining(st.remaining)]

(* Lines 239-244, after the loop *)
ReturnOk(st) ==
    LET final == IF st.state # "Init" /\ st.arg # <<>>
                   THEN Append(st.args, st.arg) ELSE st.args
    IN  [st EXCEPT !.args = final, !.pc = "done", !.result = Ok(final)]

(* The loop is left by the `break` of line 203 or by that of next_char!    *)
(* at line 186                                                             *)
LoopLeft(s, st) == st.pc = "after" \/ (st.pc = "loop" /\ st.pos >= Len(s))

ParserIter(s, st) ==
    IF LoopLeft(s, st) THEN ReturnOk(st)
    ELSE IF st.state = "Init" THEN InitArm(s, st)
    ELSE IF st.state = "Quoted" THEN QuotedArm(s, st)
    ELSE UnquotedArm(s, st)

RECURSIVE ParserRun(_, _)
ParserRun(s, st) == IF st.pc = "done" THEN st ELSE ParserRun(s, ParserIter(s, st))

(* Parser { initial_command_name: cn }.parse(s) *)
parse(cn, s) == ParserRun(s, ParserStart(cn, s)).result

(* The locals of parse as a record, and their assignment *)
Locals ==
    [ pos |-> pos, remaining |-> remaining, args |-> args, arg |-> arg,
      state |-> state, command_name |-> command_name, pc |-> pc, result |-> result ]

Assign(st) ==
    /\ pos' = st.pos
    /\ remaining' = st.remaining
    /\ args' = st.args
    /\ arg' = st.arg
    /\ state' = st.state
    /\ command_name' = st.command_name
    /\ pc' = st.pc
    /\ result' = st.result
    /\ UNCHANGED input
    /\ UNCHANGED parserIdle

(* Parser::new() or Parser::full(), then parse(s) *)
ParserInit ==
    /\ input \in ParserInputs
    /\ command_name \in BOOLEAN
    /\ pos = 0
    /\ remaining = Len(input)
    /\ args = <<>>
    /\ arg = <<>>
    /\ state = "Init"
    /\ pc = "loop"
    /\ result = NoResult
    /\ backslash_cnt = 0
    /\ in_quote = FALSE
    /\ quoted = <<>>
    /\ in_quotes = FALSE

ParserInitArm ==
    /\ pc = "loop"
    /\ pos < Len(input)
    /\ state = "Init"
    /\ Assign(InitArm(input, Locals))

ParserQuotedArm ==
    /\ pc = "loop"
    /\ pos < Len(input)
    /\ state = "Quoted"
    /\ Assign(QuotedArm(input, Locals))

ParserUnquotedArm ==
    /\ pc = "loop"
    /\ pos < Len(input)
    /\ state = "Unquoted"
    /\ Assign(UnquotedArm(input, Locals))

ParserReturn ==
    /\ LoopLeft(input, Locals)
    /\ Assign(ReturnOk(Locals))

ParserNext ==
    \/ ParserInitArm
    \/ ParserQuotedArm
    \/ ParserUnquotedArm
    \/ ParserReturn

ParserSpec == ParserInit /\ [][ParserNext]_vars

ParserTypeOK ==
    /\ input \in ParserInputs
    /\ pos \in 0..Len(input)
    /\ remaining = Len(input) - pos
    /\ state \in {"Init", "Quoted", "Unquoted"}
    /\ pc \in {"loop", "after", "done"}
    /\ pc = "done" <=> result # NoResult

----------------------------------------------------------------------------
(* cmd_exe::quote followed by cmd_exe::split (cmd_exe.rs:5-79).  `input`   *)
(* is the value s of quote, `quoted` its result and the argument of split; *)
(* `pos` counts the characters read by the function that is running.       *)

CmdChars == {"a", Space, Tab, Backslash, Quote}

CmdValues == SeqsUpTo(CmdChars, MaxLen)

(* `while chars.peek() == Some(&'\\')`: the backslashes of s from p + 1 on *)
RECURSIVE BackslashRun(_, _)
BackslashRun(s, p) ==
    IF p + 1 <= Len(s) /\ s[p + 1] = Backslash THEN 1 + BackslashRun(s, p + 1) ELSE 0

PeekIs(s, p, c) == p + 1 <= Len(s) /\ s[p + 1] = c

CmdIdle ==
    /\ backslash_cnt = 0
    /\ in_quote = FALSE
    /\ state = "Init"
    /\ command_name = FALSE
    /\ remaining = 0
    /\ result = NoResult

(* Either split(quote(input)), or split called on a string of its own     *)
(* (pc = "split_arg", as in the test should_split_across_multiple_...)    *)
CmdInit ==
    /\ \/ input \in CmdValues /\ quoted = <<Quote>> /\ pc = "quote"
       \/ input = <<>> /\ quoted \in CmdValues /\ pc = "split_arg"
    /\ pos = 0
    /\ args = <<>>
    /\ arg = <<>>
    /\ in_quotes = FALSE
    /\ CmdIdle

CmdInSplit == pc \in {"split", "split_arg"}

(* quote, arm '\\' (lines 12-30) *)
CmdQuoteBackslashArm ==
    /\ pc = "quote"
    /\ pos < Len(input)
    /\ input[pos + 1] = Backslash
    /\ LET num_backslashes == 1 + BackslashRun(input, pos + 1)
           after == pos + num_backslashes
       IN  IF PeekIs(input, after, Quote)
             THEN /\ quoted' = add_n_backslashes(quoted, num_backslashes * 2)
                                  \o <<Backslash, Quote>>
                  /\ pos' = after + 1
             ELSE /\ quoted' = add_n_backslashes(quoted, num_backslashes)
                  /\ pos' = after
    /\ UNCHANGED <<input, args, arg, in_quotes, pc>>
    /\ UNCHANGED shellIdle

(* quote, arm '"' (lines 31-34) *)
CmdQuoteQuoteArm ==
    /\ pc = "quote"
    /\ pos < Len(input)
    /\ input[pos + 1] = Quote
    /\ quoted' = quoted \o <<Backslash, Quote>>
    /\ pos' = pos + 1
    /\ UNCHANGED <<input, args, arg, in_quotes, pc>>
    /\ UNCHANGED shellIdle

(* quote, arm _ (lines 35-37) *)
CmdQuoteOtherArm ==
    /\ pc = "quote"
    /\ pos < Len(input)
    /\ input[pos + 1] \notin {Backslash, Quote}
    /\ quoted' = Append(quoted, input[pos + 1])
    /\ pos' = pos + 1
    /\ UNCHANGED <<input, args, arg, in_quotes, pc>>
    /\ UNCHANGED shellIdle

(* quote, lines 41-42, and the start of split on the result (lines 47-50) *)
CmdQuoteReturn ==
    /\ pc = "quote"
    /\ pos = Len(input)
    /\ quoted' = Append(quoted, Quote)
    /\ pos' = 0
    /\ pc' = "split"
    /\ UNCHANGED <<input, args, arg, in_quotes>>
    /\ UNCHANGED shellIdle

(* `if !arg.is_empty() { args.push(arg); }` before `args` is returned *)
PushIfLeft(as, a) == IF a # <<>> THEN Append(as, a) ELSE as

(* `if !arg.is_empty() { args.push(arg); arg = String::new(); }` *)
PushArg ==
    IF arg # <<>>
      THEN args' = Append(args, arg) /\ arg' = <<>>
      ELSE UNCHANGED <<args, arg>>

(* split, arm ' ' if !in_quotes (lines 54-59) *)
CmdSplitSpaceArm ==
    /\ CmdInSplit
    /\ pos < Len(quoted)
    /\ quoted[pos + 1] = Space /\ ~in_quotes
    /\ PushArg
    /\ pos' = pos + 1
    /\ UNCHANGED <<input, quoted, in_quotes, pc>>
    /\ UNCHANGED shellIdle

(* split, arm '"' (line 60) *)
CmdSplitQuoteArm ==
    /\ CmdInSplit
    /\ pos < Len(quoted)
    /\ quoted[pos + 1] = Quote
    /\ in_quotes' = ~in_quotes
    /\ pos' = pos + 1
    /\ UNCHANGED <<input, quoted, args, arg, pc>>
    /\ UNCHANGED shellIdle

(* split, arm '\\' (lines 61-69) *)
CmdSplitBackslashArm ==
    /\ CmdInSplit
    /\ pos < Len(quoted)
    /\ quoted[pos + 1] = Backslash
    /\ IF in_quotes /\ PeekIs(quoted, pos + 1, Quote)
         THEN arg' = Append(arg, Quote) /\ pos' = pos + 2
         ELSE arg' = Append(arg, Backslash) /\ pos' = pos + 1
    /\ UNCHANGED <<input, quoted, args, in_quotes, pc>>
    /\ UNCHANGED shellIdle

(* split, arm _ (line 70) *)
CmdSplitOtherArm ==
    /\ CmdInSplit
    /\ pos < Len(quoted)
    /\ quoted[pos + 1] \notin {Quote, Backslash}
    /\ ~(quoted[pos + 1] = Space /\ ~in_quotes)
    /\ arg' = Append(arg, quoted[pos + 1])
    /\ pos' = pos + 1
    /\ UNCHANGED <<input, quoted, args, in_quotes, pc>>
    /\ UNCHANGED shellIdle

(* split, lines 74-78 *)
CmdSplitReturn ==
    /\ CmdInSplit
    /\ pos >= Len(quoted)
    /\ args' = PushIfLeft(args, arg)
    /\ pc' = IF pc = "split" THEN "done" ELSE "returned"
    /\ UNCHANGED <<input, quoted, pos, arg, in_quotes>>
    /\ UNCHANGED shellIdle

CmdNext ==
    \/ CmdQuoteBackslashArm
    \/ CmdQuoteQuoteArm
    \/ CmdQuoteOtherArm
    \/ CmdQuoteReturn
    \/ CmdSplitSpaceArm
    \/ CmdSplitQuoteArm
    \/ CmdSplitBackslashArm
    \/ CmdSplitOtherArm
    \/ CmdSplitReturn

CmdExeSpec == CmdInit /\ [][CmdNext]_vars

----------------------------------------------------------------------------
(* powershell::quote followed by powershell::split (powershell.rs:5-56) *)

SingleQuote == "'"
Backtick == "BACKTICK"

PsChars == {"a", Space, SingleQuote, Backtick, Quote}

PsValues == SeqsUpTo(PsChars, MaxLen)

PsInit ==
    /\ input \in PsValues
    /\ quoted = <<SingleQuote>>
    /\ pos = 0
    /\ args = <<>>
    /\ arg = <<>>
    /\ in_quotes = FALSE
    /\ pc = "quote"
    /\ CmdIdle

(* quote, arm for the single quote (lines 10-13) *)
PsQuoteSingleQuoteArm ==
    /\ pc = "quote"
    /\ pos < Len(input)
    /\ input[pos + 1] = SingleQuote
    /\ quoted' = quoted \o <<SingleQuote, SingleQuote>>
    /\ pos' = pos + 1
    /\ UNCHANGED <<input, args, arg, in_quotes, pc>>
    /\ UNCHANGED shellIdle

(* quote, arm _ (lines 14-16) *)
PsQuoteOtherArm ==
    /\ pc = "quote"
    /\ pos < Len(input)
    /\ input[pos + 1] # SingleQuote
    /\ quoted' = Append(quoted, input[pos + 1])
    /\ pos' = pos + 1
    /\ UNCHANGED <<input, args, arg, in_quotes, pc>>
    /\ UNCHANGED shellIdle

(* quote, lines 19-20, and the start of split on the result (lines 27-30) *)
PsQuoteReturn ==
    /\ pc = "quote"
    /\ pos = Len(input)
    /\ quoted' = Append(quoted, SingleQuote)
    /\ pos' = 0
    /\ pc' = "split"
    /\ UNCHANGED <<input, args, arg, in_quotes>>
    /\ UNCHANGED shellIdle

(* split, arm ' ' if !in_quotes (lines 34-39) *)
PsSplitSpaceArm ==
    /\ pc = "split"
    /\ pos < Len(quoted)
    /\ quoted[pos + 1] = Space /\ ~in_quotes
    /\ PushArg
    /\ pos' = pos + 1
    /\ UNCHANGED <<input, quoted, in_quotes, pc>>
    /\ UNCHANGED shellIdle

(* split, arm '"' (line 40) *)
PsSplitQuoteArm ==
    /\ pc = "split"
    /\ pos < Len(quoted)
    /\ quoted[pos + 1] = Quote
    /\ in_quotes' = ~in_quotes
    /\ pos' = pos + 1
    /\ UNCHANGED <<input, quoted, args, arg, pc>>
    /\ UNCHANGED shellIdle

(* split, arm for the backtick if in_quotes (lines 41-46) *)
PsSplitBacktickArm ==
    /\ pc = "split"
    /\ pos < Len(quoted)
    /\ quoted[pos + 1] = Backtick /\ in_quotes
    /\ IF pos + 2 <= Len(quoted)
         THEN arg' = Append(arg, quoted[pos + 2]) /\ pos' = pos + 2
         ELSE arg' = arg /\ pos' = pos + 1
    /\ UNCHANGED <<input, quoted, args, in_quotes, pc>>
    /\ UNCHANGED shellIdle

(* split, arm _ (line 47) *)
PsSplitOtherArm ==
    /\ pc = "split"
    /\ pos < Len(quoted)
    /\ quoted[pos + 1] # Quote
    /\ ~(quoted[pos + 1] = Space /\ ~in_quotes)
    /\ ~(quoted[pos + 1] = Backtick /\ in_quotes)
    /\ arg' = Append(arg, quoted[pos + 1])
    /\ pos' = pos + 1
    /\ UNCHANGED <<input, quoted, args, in_quotes, pc>>
    /\ UNCHANGED shellIdle

(* split, lines 51-55 *)
PsSplitReturn ==
    /\ pc = "split"
    /\ pos >= Len(quoted)
    /\ args' = PushIfLeft(args, arg)
    /\ pc' = "done"
    /\ UNCHANGED <<input, quoted, pos, arg, in_quotes>>
    /\ UNCHANGED shellIdle

PsNext ==
    \/ PsQuoteSingleQuoteArm
    \/ PsQuoteOtherArm
    \/ PsQuoteReturn
    \/ PsSplitSpaceArm
    \/ PsSplitQuoteArm
    \/ PsSplitBacktickArm
    \/ PsSplitOtherArm
    \/ PsSplitReturn

PowershellSpec == PsInit /\ [][PsNext]_vars

----------------------------------------------------------------------------
(* Vocabulary of the properties, independent of the helpers above *)

Delimiters == {Space, Tab, CR, LF, NUL}

Backslashes(n) == [i \in 1..n |-> Backslash]

Quoted1(w) == <<Quote>> \o w \o <<Quote>>

AtChar == pc = "scan" /\ pos < Len(input)

(* Length of the backslash run that ends at position p of s *)
RunBefore(s, p) ==
    CHOOSE k \in 0..p :
        /\ \A i \in (p - k + 1)..p : s[i] = Backslash
        /\ (k = p \/ s[p - k] # Backslash)

IsPlain(s) == \A i \in 1..Len(s) : s[i] \notin {Quote, Backslash}

(* The maximal runs of non-delimiter characters of s, left to right *)
RunStarts(s) ==
    {i \in 1..Len(s) : s[i] \notin Delimiters /\ (i = 1 \/ s[i - 1] \in Delimiters)}

RunEnd(s, i) ==
    CHOOSE j \in i..Len(s) :
        /\ \A k \in i..j : s[k] \notin Delimiters
        /\ (j = Len(s) \/ s[j + 1] \in Delimiters)

MaximalRuns(s) ==
    [k \in 1..Cardinality(RunStarts(s)) |->
        LET i == CHOOSE x \in RunStarts(s) :
                     Cardinality({y \in RunStarts(s) : y < x}) = k - 1
        IN  SubSeq(s, i, RunEnd(s, i))]

PushIfNonEmpty(as, a) == IF a # <<>> THEN Append(as, a) ELSE as

----------------------------------------------------------------------------
(* C1: a double quote read with an even pending backslash count 2n, which  *)
(* is not the first quote of a doubled quote inside a quoted region,       *)
(* appends exactly n backslashes and not the quote, toggles the            *)
(* quoted-region flag and resets the pending count to 0.                   *)
C1_Case ==
    /\ AtChar
    /\ input[pos + 1] = Quote
    /\ backslash_cnt % 2 = 0
    /\ ~(in_quote /\ pos + 2 <= Len(input) /\ input[pos + 2] = Quote)

C1_EvenBackslashesQuoteToggles ==
    [][C1_Case =>
          /\ arg' = arg \o Backslashes(backslash_cnt \div 2)
          /\ args' = args
          /\ in_quote' = ~in_quote
          /\ backslash_cnt' = 0]_vars

C1_Witness ==
    /\ pc = "done"
    /\ input = <<"a", Backslash, Backslash, Backslash, Backslash, Quote,
                 "b", " ", "c", Quote, " ", "d">>
    /\ args = << <<"a", Backslash, Backslash, "b", " ", "c">>, <<"d">> >>

(* C2: a double quote read with an odd pending backslash count 2n+1        *)
(* appends n backslashes and one literal quote, leaves the quoted-region   *)
(* flag unchanged, resets the pending count, and consumes one character    *)
(* only, even when the next character is a quote.                          *)
C2_Case ==
    /\ AtChar
    /\ input[pos + 1] = Quote
    /\ backslash_cnt % 2 = 1

C2_OddBackslashesLiteralQuote ==
    [][C2_Case =>
          /\ arg' = (arg \o Backslashes((backslash_cnt - 1) \div 2)) \o <<Quote>>
          /\ in_quote' = in_quote
          /\ backslash_cnt' = 0
          /\ pos' = pos + 1]_vars

C2_Witness ==
    /\ pc = "done"
    /\ input = <<Quote, Backslash, Quote, Quote>>
    /\ ~in_quote
    /\ args = << <<Quote>> >>

(* C3: a maximal run of k backslashes whose next character is not a quote, *)
(* or which ends the input, contributes exactly k backslashes to the       *)
(* current argument, inside and outside a quoted region.                   *)
C3_BackslashRunLiteral ==
    [][pc = "scan" =>
          /\ backslash_cnt = RunBefore(input, pos)
          /\ (pos < Len(input) /\ input[pos + 1] \notin {Quote, Backslash}) =>
                LET c == input[pos + 1]
                    lit == arg \o Backslashes(RunBefore(input, pos))
                IN  IF ~in_quote /\ c \in Delimiters
                      THEN arg' = <<>> /\ args' = PushIfNonEmpty(args, lit)
                      ELSE arg' = Append(lit, c) /\ args' = args
          /\ pos = Len(input) =>
                args' = PushIfNonEmpty(args, arg \o Backslashes(RunBefore(input, pos)))]_vars

C3_Witness ==
    /\ pc = "done"
    /\ input = <<Quote, Backslash, Backslash, "a">>
    /\ args = << <<Backslash, Backslash, "a">> >>

(* C4: a double quote read inside a quoted region with an even pending     *)
(* count and followed by another quote consumes both quotes, appends half  *)
(* the pending backslashes and one literal quote, and stays in the region. *)
C4_Case ==
    /\ AtChar
    /\ pos + 2 <= Len(input)
    /\ input[pos + 1] = Quote
    /\ input[pos + 2] = Quote
    /\ in_quote
    /\ backslash_cnt % 2 = 0

C4_DoubledQuoteInsideQuotes ==
    [][C4_Case =>
          /\ pos' = pos + 2
          /\ arg' = (arg \o Backslashes(backslash_cnt \div 2)) \o <<Quote>>
          /\ in_quote'
          /\ backslash_cnt' = 0]_vars

C4_Witness ==
    /\ pc = "done"
    /\ input = <<Quote, "a", " ", "b", " ", "c", Quote, Quote>>
    /\ in_quote
    /\ args = << <<"a", " ", "b", " ", "c", Quote>> >>

(* C5: for an input without quote and backslash, split returns exactly the *)
(* maximal runs of non-delimiter characters (delimiters: space, tab, CR,   *)
(* LF, NUL) in left-to-right order; empty or all-delimiter input gives the *)
(* empty sequence.                                                         *)
C5_PlainInputSplitsOnDelimiters ==
    (pc = "done" /\ IsPlain(input)) => args = MaximalRuns(input)

C5_Witness ==
    /\ pc = "done"
    /\ input = <<Tab, "a", Space, Tab>>
    /\ args = << <<"a">> >>

(* C6: an argument opened and closed by an empty quote pair that is        *)
(* delimited by whitespace or the input boundaries yields an empty-string  *)
(* argument at that position; unquoted whitespace never yields one.        *)
(* Stated for the inputs whose other characters are plain.                 *)
IsolatedEmptyPairAt(s, i) ==
    /\ i + 1 <= Len(s)
    /\ s[i] = Quote /\ s[i + 1] = Quote
    /\ (i = 1 \/ s[i - 1] \in Delimiters)
    /\ (i + 1 = Len(s) \/ s[i + 2] \in Delimiters)
    /\ IsPlain(SubSeq(s, 1, i - 1))
    /\ IsPlain(SubSeq(s, i + 2, Len(s)))

C6_EmptyQuotePairYieldsEmptyArg ==
    pc = "done" =>
        \A i \in 1..Len(input) :
            IsolatedEmptyPairAt(input, i) =>
                args = (MaximalRuns(SubSeq(input, 1, i - 1)) \o << <<>> >>)
                           \o MaximalRuns(SubSeq(input, i + 2, Len(input)))

(* C7: split terminates on every input, consuming the characters left to   *)
(* right without rewinding (one character per iteration, two for a doubled *)
(* quote), ends with every character consumed and a sequence of arguments, *)
(* and returns the empty sequence for the empty input.                     *)
C7_TerminatesSinglePass ==
    /\ [][pc = "scan" /\ pc' = "scan" => pos' \in {pos + 1, pos + 2}]_vars
    /\ [][pc = "scan" /\ pc' = "done" => pos' = pos /\ pos = Len(input)]_vars
    /\ [](pc = "done" =>
            /\ \A i \in 1..Len(args) : \A j \in 1..Len(args[i]) :
                   \E k \in 1..Len(input) : args[i][j] = input[k]
            /\ (input = <<>> => args = <<>>))
    /\ <>(pc = "done")

C7_Witness ==
    /\ pc = "done"
    /\ input = <<Quote, Quote, Quote, "a">>
    /\ pos = 4
    /\ args = << <<Quote, "a">> >>

(* C8: when the input ends inside a quoted region the region is closed     *)
(* implicitly: the pending backslashes are flushed literally and the       *)
(* non-empty buffer, whitespace included, is pushed as the last argument.  *)
C8_UnclosedQuoteFlushed ==
    [][(pc = "scan" /\ pos = Len(input) /\ in_quote) =>
          /\ pc' = "done"
          /\ args' = PushIfNonEmpty(args, arg \o Backslashes(backslash_cnt))]_vars

C8_Witness ==
    /\ pc = "done"
    /\ in_quote
    /\ input = <<Quote, "a", Space, Backslash>>
    /\ args = << <<"a", Space, Backslash>> >>

(* C9 as stated: four quotes, Call Me Ishmael, four quotes gives the one   *)
(* argument "Call Me Ishmael" with a literal quote on each side.           *)
C9_QuadQuotesOneArg ==
    (pc = "done" /\ input = WrapQuad(CallMeIshmael)) =>
        args = << Quoted1(CallMeIshmael) >>

(* C9 amended: four quotes, Call Me Ishmael, four quotes gives the three   *)
(* arguments "Call, Me and Ishmael": each run of four quotes opens a       *)
(* region, yields one literal quote and closes the region again.           *)
C9_QuadQuotesThreeArgs ==
    (pc = "done" /\ input = WrapQuad(CallMeIshmael)) =>
        args = << <<Quote, "C", "a", "l", "l">>,
                  <<"M", "e">>,
                  <<"I", "s", "h", "m", "a", "e", "l", Quote>> >>

C9_Witness ==
    /\ pc = "done"
    /\ input = WrapQuad(CallMeIshmael)
    /\ Len(args) = 3
    /\ ~in_quote

(* C10: for every text w without quote and backslash, the inputs """w""",  *)
(* \""w"\" and "\"w\"" all give the single argument "w" (w between two     *)
(* literal quotes).                                                        *)
C10_TripleQuoteForms ==
    pc = "done" =>
        \A w \in Words \cup {CallMeIshmael} :
            input \in {WrapTriple(w), WrapEscOuter(w), WrapEscInner(w)} =>
                args = << Quoted1(w) >>

C10_Witness ==
    /\ pc = "done"
    /\ input = WrapEscOuter(<<"a", Space>>)
    /\ args = << <<Quote, "a", Space, Quote>> >>

(* C11 as stated: for every non-empty w without quote and backslash, the   *)
(* inputs """"w"""" and \"w\" give the same result, namely w split on      *)
(* whitespace with a literal quote prefixed to the first argument and      *)
(* suffixed to the last.                                                   *)
QuotePrefixedSuffixed(runs) ==
    [k \in 1..Len(runs) |->
        (IF k = 1 THEN <<Quote>> ELSE <<>>) \o runs[k]
            \o (IF k = Len(runs) THEN <<Quote>> ELSE <<>>)]

C11_QuadQuotesSplitOfW ==
    pc = "done" =>
        \A w \in (Words \ {<<>>}) \cup {CallMeIshmael} :
            input \in {WrapQuad(w), WrapEsc(w)} =>
                /\ MaximalRuns(w) # <<>>
                /\ args = QuotePrefixedSuffixed(MaximalRuns(w))

(* C11 amended: both inputs give the maximal runs of non-delimiter         *)
(* characters of quote, w, quote taken as plain text; when w neither       *)
(* starts nor ends with a delimiter this is w split on whitespace with a   *)
(* literal quote prefixed to the first argument and suffixed to the last.  *)
C11_QuadQuotesAsEscapedQuotes ==
    pc = "done" =>
        \A w \in (Words \ {<<>>}) \cup {CallMeIshmael} :
            input \in {WrapQuad(w), WrapEsc(w)} =>
                /\ args = MaximalRuns(Quoted1(w))
                /\ (w[1] \notin Delimiters /\ w[Len(w)] \notin Delimiters) =>
                       args = QuotePrefixedSuffixed(MaximalRuns(w))

C11_Witness ==
    /\ pc = "done"
    /\ input = WrapQuad(<<"a", Space>>)
    /\ args = << <<Quote, "a">>, <<Quote>> >>

(* C20 as stated: a run of 1+k quotes that starts outside a quoted region  *)
(* with no pending backslashes follows the modulo-3 rule: k = 3n gives n   *)
(* literal quotes and leaves the region open, k = 3n+1 gives n quotes and  *)
(* closes it, k = 3n+2 gives n+1 quotes and closes it.  Stated for the     *)
(* runs whose prefix has no quote and no backslash, at the state where the *)
(* run has just been consumed.                                             *)
LastRun(s) ==
    LET d == {i \in 1..Len(s) : s[i] \in Delimiters}
        from == IF d = {} THEN 1 ELSE (CHOOSE i \in d : \A j \in d : j <= i) + 1
    IN  SubSeq(s, from, Len(s))

(* The quotes input[pos-m+1..pos] are a maximal run after a plain prefix *)
QuoteRunJustRead(m) ==
    /\ pc = "scan"
    /\ m \in 1..pos
    /\ \A i \in (pos - m + 1)..pos : input[i] = Quote
    /\ (pos = Len(input) \/ input[pos + 1] # Quote)
    /\ IsPlain(SubSeq(input, 1, pos - m))

----------------------------------------------------------------------------
(* Parser::parse *)

HasNewline(s) == \E i \in 1..Len(s) : s[i] = LF

(* C12: for every input without quote, backslash and newline,              *)
(* Parser::new().parse returns Ok with exactly the maximal runs of         *)
(* non-delimiter characters, a final one-character token included.         *)
C12_ParserPlainInputSplitsOnDelimiters ==
    (pc = "done" /\ ~command_name /\ IsPlain(input) /\ ~HasNewline(input)) =>
        result = Ok(MaximalRuns(input))

(* C13: Parser::new().parse returns a double-quoted region as part of one  *)
(* argument, quotes removed and inner whitespace kept, and still returns   *)
(* the tokens after the closing quote (tests should_support_quoted_args    *)
(* and should_support_multiple_args_with_quotes).                          *)
C13_ParserQuotedRegionIsOneArg ==
    (pc = "done" /\ ~command_name) =>
        /\ input = ParserTestQuotedArg =>
               result = Ok(<< <<"q", "u", "o", "t", "e", "d", Space, "a", "r", "g">> >>)
        /\ input = ParserTestMultipleQuoted =>
               result = Ok(<< <<"o", "n", "e">>,
                              <<"t", "w", "o", Space, "a", "n", "d", Space, "u", "h">>,
                              <<"t", "h", "r", "e", "e">> >>)

(* C14: Parser::full().parse applies the command-name rules to the first   *)
(* token only: for an input T, delimiter, R with T free of quotes the      *)
(* result is T followed by the arguments of Parser::new().parse(R).        *)
FirstDelimiter(s) ==
    CHOOSE i \in 1..Len(s) :
        s[i] \in Delimiters /\ \A j \in 1..(i - 1) : s[j] \notin Delimiters

C14_FullIsFirstTokenThenNew ==
    (pc = "done" /\ command_name
       /\ (\E i \in 2..Len(input) : input[i] \in Delimiters)
       /\ input[1] \notin Delimiters) =>
        LET i == FirstDelimiter(input)
            T == SubSeq(input, 1, i - 1)
            r == parse(FALSE, SubSeq(input, i + 1, Len(input)))
        IN  (\A j \in 1..Len(T) : T[j] # Quote) =>
                IF r[1] = "Ok" THEN result = Ok(<<T>> \o r[2]) ELSE result = r

(* C15: in Parser::full().parse every backslash of the first token is      *)
(* copied literally and the result is Ok, for an unquoted executable path  *)
(* and for a quoted one with spaces, whose following arguments are         *)
(* returned in order (tests ..._if_set_to_full_parsing).                   *)
C15_FullKeepsBackslashesOfPath ==
    (pc = "done" /\ command_name) =>
        /\ input = ParserTestProgramPath => result = Ok(<<ParserTestProgramPath>>)
        /\ input = ParserTestQuotedPath =>
               result = Ok(<< SubSeq(ParserTestQuotedPath, 2, 27),
                              <<"a", "r", "g">>,
                              <<"-", "a", "r", "g", "2">>,
                              <<"-", "-", "a", "r", "g", "3">> >>)

(* C16: in either mode, a newline read in state Init with an empty buffer, *)
(* at the start of an iteration or after delimiters skipped there, makes   *)
(* the call return Err(ReachedUnescapedNewline), which carries no          *)
(* arguments.                                                              *)
NewlineWhileSkipping ==
    /\ pc = "loop"
    /\ state = "Init"
    /\ arg = <<>>
    /\ \E j \in (pos + 1)..Len(input) :
          /\ input[j] = LF
          /\ \A i \in (pos + 1)..(j - 1) : input[i] \in Delimiters \ {LF}

C16_NewlineInInitIsError ==
    [][NewlineWhileSkipping =>
          /\ pc' = "done"
          /\ result' = <<"Err", "ReachedUnescapedNewline">>]_vars

C16_Witness ==
    /\ pc = "done"
    /\ command_name
    /\ input = <<"a", Space, LF, "b">>
    /\ args = << <<"a">> >>
    /\ result = <<"Err", "ReachedUnescapedNewline">>

(* C17: for every input without newline, Parser::new().parse returns Ok    *)
(* with exactly the arguments of vc_2008::split.                           *)
C17_ParserNewEqualsVc2008 ==
    (pc = "done" /\ ~HasNewline(input)) => parse(FALSE, input) = Ok(args)

----------------------------------------------------------------------------
(* cmd_exe and powershell *)

(* C18: for every value v without double quote (the empty value, values    *)
(* with spaces or tabs and values ending in a backslash included),         *)
(* cmd_exe::split(cmd_exe::quote(v)) is the one-element list [v].          *)
C18_CmdExeRoundTrip ==
    (pc = "done" /\ \A i \in 1..Len(input) : input[i] # Quote) =>
        args = <<input>>

(* C19: for every value v without double and single quote (the empty       *)
(* value and values with spaces or backticks included),                    *)
(* powershell::split(powershell::quote(v)) is the one-element list [v].    *)
C19_PowershellRoundTrip ==
    (pc = "done" /\ \A i \in 1..Len(input) : input[i] \notin {Quote, SingleQuote}) =>
        args = <<input>>

----------------------------------------------------------------------------
(* Parser::parse: the buffer, the transitions and the end of input *)

(* C21: whenever an iteration of the loop of Parser::parse begins in state *)
(* Init the argument buffer is empty, and the call never returns           *)
(* Err(ArgNotEmptyInInitialState), in either mode.                         *)
C21_ArgEmptyInInit ==
    /\ (pc = "loop" /\ state = "Init") => arg = <<>>
    /\ result # Err("ArgNotEmptyInInitialState")

(* An iteration is about to begin in Init after an argument was stored *)
C21_Witness ==
    /\ pc = "loop" /\ state = "Init"
    /\ pos < Len(input)
    /\ args # <<>>
    /\ arg = <<>>

(* C22: in Parser::parse a delimiter read in state Unquoted emits the      *)
(* pending argument and returns the parser to Init, and an unescaped       *)
(* double quote that is not doubled, read in state Quoted, moves the       *)
(* parser to Unquoted.                                                     *)
C22_TransitionsLeaveQuotedAndUnquoted ==
    [][ /\ ( /\ pc = "loop" /\ pos < Len(input)
             /\ state = "Quoted"
             /\ input[pos + 1] = Quote
             /\ input[pos] # Backslash
             /\ ~(pos + 2 <= Len(input) /\ input[pos + 2] = Quote) )
           => state' = "Unquoted"
        /\ ( /\ pc = "loop" /\ pos < Len(input)
             /\ state = "Unquoted"
             /\ input[pos + 1] \in Delimiters \ {LF} )
           => (state' = "Init" /\ Len(args') = Len(args) + 1 /\ arg' = <<>>)
      ]_vars

(* C23: when the input of Parser::parse ends in a character that is        *)
(* neither a delimiter nor a quote (the last character of an argument, a   *)
(* one-character argument, or a backslash), the call returns Ok and that   *)
(* character is the last one of the last argument.                         *)
C23_EndOfInputFlushes ==
    ( /\ pc = "done"
      /\ Len(input) > 0
      /\ \A i \in 1..Len(input) : input[i] \notin {Quote, LF}
      /\ input[Len(input)] \notin Delimiters )
    => /\ result[1] = "Ok"
       /\ result[2] # <<>>
       /\ LET last == result[2][Len(result[2])]
          IN  last # <<>> /\ last[Len(last)] = input[Len(input)]

(* C28: Parser::full().parse never returns Err(CommandNameBackslash) *)
C28_FullNeverCommandNameBackslash ==
    command_name => result # Err("CommandNameBackslash")

(* Parser::full() has returned an argument that holds a backslash *)
C28_Witness ==
    /\ command_name
    /\ pc = "done"
    /\ result = Ok(args)
    /\ \E k \in 1..Len(args) : \E j \in 1..Len(args[k]) : args[k][j] = Backslash

(* A character that a token of the current mode is built from *)
TokenChar(c) ==
    /\ c \notin Delimiters
    /\ c # Quote
    /\ (c = Backslash => command_name)

(* C29: in Parser::parse a token read in state Init and followed at once   *)
(* by a newline is stored as an argument, the newline being consumed       *)
(* without error; Err(ReachedUnescapedNewline) is returned only in state   *)
(* Init for a newline that is the first character of the input or follows  *)
(* a delimiter.                                                            *)
C29_NewlineAfterArgIsDelimiter ==
    /\ [](result = Err("ReachedUnescapedNewline") =>
            /\ state = "Init"
            /\ pos >= 1
            /\ input[pos] = LF
            /\ (pos = 1 \/ input[pos - 1] \in Delimiters))
    /\ [][ \A j \in (pos + 2)..Len(input) :
             ( /\ pc = "loop" /\ state = "Init"
               /\ input[j] = LF
               /\ \A i \in (pos + 1)..(j - 1) : TokenChar(input[i]) )
             => /\ pc' = "loop"
                /\ result' = NoResult
                /\ state' = "Init"
                /\ args' = Append(args, SubSeq(input, pos + 1, j - 1))
                /\ arg' = <<>>
                /\ pos' = j
         ]_vars

(* A newline that follows an argument character has just ended an argument *)
C29_Witness ==
    /\ pc = "loop" /\ state = "Init"
    /\ result = NoResult
    /\ pos >= 2
    /\ input[pos] = LF
    /\ TokenChar(input[pos - 1])
    /\ args # <<>>
    /\ args[Len(args)][Len(args[Len(args)])] = input[pos - 1]

----------------------------------------------------------------------------
(* vc_2008::split: frame, shape of the result, composition *)

RECURSIVE Flatten(_)
Flatten(as) == IF as = <<>> THEN <<>> ELSE as[1] \o Flatten(Tail(as))

(* a[i..] can be found, in order, in s[j..] *)
RECURSIVE IsSubsequenceFrom(_, _, _, _)
IsSubsequenceFrom(a, i, s, j) ==
    IF i > Len(a) THEN TRUE
    ELSE IF j > Len(s) THEN FALSE
    ELSE IF a[i] = s[j] THEN IsSubsequenceFrom(a, i + 1, s, j + 1)
    ELSE IsSubsequenceFrom(a, i, s, j + 1)

IsSubsequence(a, s) == IsSubsequenceFrom(a, 1, s, 1)

(* C24: in vc_2008::split the step on a backslash adds one to the pending  *)
(* backslash count and leaves the argument buffer, the output list and     *)
(* the quoted-region flag unchanged; the step on any character other than  *)
(* a double quote leaves the quoted-region flag unchanged.                 *)
C24_BackslashAndNonQuoteFrame ==
    [][ /\ (AtChar /\ input[pos + 1] = Backslash) =>
              /\ backslash_cnt' = backslash_cnt + 1
              /\ arg' = arg
              /\ args' = args
              /\ in_quote' = in_quote
        /\ (AtChar /\ input[pos + 1] # Quote) => in_quote' = in_quote
      ]_vars

(* A backslash was processed inside a quoted region with a buffer pending *)
C24_Witness ==
    /\ pc = "scan"
    /\ pos >= 1 /\ input[pos] = Backslash
    /\ backslash_cnt > 0
    /\ arg # <<>>
    /\ in_quote

(* C25: every argument returned by vc_2008::split is non-empty *)
C25_ArgsNonEmpty ==
    pc = "done" => \A i \in 1..Len(args) : args[i] # <<>>

(* split has returned arguments for an input that ends in a delimiter, so  *)
(* that the buffer was empty at the end of the input                       *)
C25_Witness ==
    /\ pc = "done"
    /\ args # <<>>
    /\ Len(input) > 0
    /\ input[Len(input)] \in Delimiters

(* C26: the concatenation of the arguments returned by vc_2008::split, in  *)
(* output order, is a subsequence of the input, and is no longer than it.  *)
C26_OutputIsSubsequenceOfInput ==
    pc = "done" =>
        /\ IsSubsequence(Flatten(args), input)
        /\ Len(Flatten(args)) <= Len(input)

(* Two arguments or more, one of them with a literal quote *)
C26_Witness ==
    /\ pc = "done"
    /\ Len(args) >= 2
    /\ \E i \in 1..Len(Flatten(args)) : Flatten(args)[i] = Quote

(* The input is a, one space, b, and the scan of a ends outside quotes *)
SplitsAt(i) ==
    /\ input[i] = Space
    /\ ~VcRun(SubSeq(input, 1, i - 1), VcStart).in_quote

(* C27: when the input is a, one space, b and the scan of a ends outside   *)
(* a quoted region, split(input) = split(a) \o split(b).                   *)
C27_SplitComposesAcrossSpace ==
    pc = "done" =>
        \A i \in 1..Len(input) :
            SplitsAt(i) =>
                args = split(SubSeq(input, 1, i - 1))
                         \o split(SubSeq(input, i + 1, Len(input)))

(* Both parts give arguments and a holds a quote or a backslash *)
C27_Witness ==
    /\ pc = "done"
    /\ \E i \in 1..Len(input) :
          /\ SplitsAt(i)
          /\ split(SubSeq(input, 1, i - 1)) # <<>>
          /\ split(SubSeq(input, i + 1, Len(input))) # <<>>
          /\ \E j \in 1..(i - 1) : input[j] \in {Quote, Backslash}

====
